---- MODULE Spec2Model ----
(***************************************************************************)
(* BS2PRO controller scripts: the HID controller session                   *)
(* (scripts/hid_controller.py, class BS2PROHIDController), its command     *)
(* catalog, hex command encoder and batch sender, the listen loop of its   *)
(* interactive mode, and the BLE monitor (scripts/ble_read.py, class       *)
(* BS2PROMonitor): its telemetry decoder, its notification callback and    *)
(* its run from scan to stop.                                              *)
(*                                                                         *)
(* Bytes are integers 0..255, byte strings are sequences of them, hex      *)
(* command text is a string.  Python's None is the value None below.       *)
(***************************************************************************)
EXTENDS Integers, Sequences, FiniteSets, TLC

VARIABLES
    device,        \* self.device: None or the hid.device handle the session holds
    vendor_id,     \* self.vendor_id
    product_id,    \* self.product_id
    openHandles,   \* hid handles whose open() succeeded and that were not closed since
    nextHandle,    \* the handle the next hid.device() call creates
    nonblocking,   \* set_nonblocking(True) was called on the handle held
    wire,          \* the reports the last call passed to device.write /
                   \* device.send_feature_report, in order (<<>>: it made no write)
    op,            \* name of the last method called
    args,          \* its arguments
    result,        \* what it returned: "True", "False", "None", "Data" or "Raised"
                   \* (send_multiple_commands: the count)
    command,       \* the report send_hex_command built in the last call (<<>>: none)
    closed,        \* history: disconnect() has been called on this session
    attempts,      \* history: the (vendor id, product id) pairs the last connect
                   \* call passed to _try_connect, in order
    enumerated,    \* what hid.enumerate() lists: the HID interfaces present
    open_outcomes, \* what _try_connect runs into on the i-th device found
    data,          \* the inbound frame last received (handed to parse_speed_data)
    parsed,        \* what parse_speed_data returned for it
    events,        \* what the receiving code reported for it, in order
    pc,            \* where main / connect_and_monitor of the BLE monitor stands
    running,       \* self.running of the monitor
    stop_requested,      \* history: stop_monitoring() has been called
    notification_chars,  \* the characteristics with "notify" found on the device
    target_chars,        \* those of them that carry the target UUID
    selected_char,       \* the one chosen to listen on
    subscribed,    \* the characteristics start_notify succeeded on, not yet stopped
    stop_issued,   \* the characteristics stop_notify was called on
    test_commands, \* the command list of test_bs2pro_with_commands
    write_ok       \* for each of its entries: device.write returns, should the
                   \* entry come to a write (it raises otherwise)

hidVars == <<device, vendor_id, product_id, openHandles, nextHandle, nonblocking,
             wire, command, closed, attempts>>
callVars == <<op, args, result>>
monVars == <<pc, running, stop_requested, notification_chars, target_chars,
             selected_char, subscribed, stop_issued>>
batchVars == <<test_commands, write_ok>>
scanVars == <<enumerated, open_outcomes>>
\* The variables no method of the HID controller changes.
bleVars == <<data, parsed, events, monVars, batchVars, scanVars>>
vars == <<device, vendor_id, product_id, openHandles, nextHandle, nonblocking,
          wire, op, args, result, command, closed, data, parsed, events,
          pc, running, stop_requested, notification_chars, target_chars,
          selected_char, subscribed, stop_issued, test_commands, write_ok, attempts, enumerated, open_outcomes>>

\* Python's None (self.device = None; return None, None).
None == -1

\* Bounds of the model.
MaxHandles == 2
MaxFrameLen == 14
MaxChars == 4
MaxCommands == 2
MaxEnumerated == 3

(***************************************************************************)
(* Byte and hex helpers                                                    *)
(***************************************************************************)
Char(s, i) == SubSeq(s, i, i)

Rest(s, n) == SubSeq(s, n + 1, Len(s))

Zeros(n) == [i \in 1..n |-> 0]

\* The value of one hex digit as bytes.fromhex reads it; -1 for any other character.
HexVal(c) ==
    CASE c = "0" -> 0 [] c = "1" -> 1 [] c = "2" -> 2 [] c = "3" -> 3
      [] c = "4" -> 4 [] c = "5" -> 5 [] c = "6" -> 6 [] c = "7" -> 7
      [] c = "8" -> 8 [] c = "9" -> 9
      [] c \in {"a", "A"} -> 10 [] c \in {"b", "B"} -> 11
      [] c \in {"c", "C"} -> 12 [] c \in {"d", "D"} -> 13
      [] c \in {"e", "E"} -> 14 [] c \in {"f", "F"} -> 15
      [] OTHER -> -1

\* One lower-case hex digit, as the format spec "x" and bytes.hex() write it.
HexChar(n) == Char("0123456789abcdef", n + 1)

\* f"{n:02x}" for a byte n.
ToHex2(n) == HexChar(n \div 16) \o HexChar(n % 16)

\* bytes.hex()
RECURSIVE BytesHex(_)
BytesHex(bs) == IF bs = <<>> THEN "" ELSE ToHex2(Head(bs)) \o BytesHex(Tail(bs))

\* pat occurs in s.
Occurs(s, pat) ==
    \E i \in 1..(Len(s) - Len(pat) + 1) : SubSeq(s, i, i + Len(pat) - 1) = pat

\* str.replace(pat, ""): every non-overlapping occurrence, left to right.
RECURSIVE RemoveFrom(_, _)
RemoveFrom(s, pat) ==
    IF Len(s) < Len(pat) THEN s
    ELSE IF SubSeq(s, 1, Len(pat)) = pat THEN RemoveFrom(Rest(s, Len(pat)), pat)
    ELSE Char(s, 1) \o RemoveFrom(Rest(s, 1), pat)

RemoveAll(s, pat) == IF Occurs(s, pat) THEN RemoveFrom(s, pat) ELSE s

\* ASCII whitespace, which bytes.fromhex skips between two bytes.
IsSpace(c) == c \in {" ", "\t", "\n", "\r", "\f"}

HasSpace(s) == \E i \in 1..Len(s) : IsSpace(Char(s, i))

\* Text made of hex digits only, an even number of them.
PlainHex(s) == Len(s) % 2 = 0 /\ \A i \in 1..Len(s) : HexVal(Char(s, i)) >= 0

\* bytes.fromhex read left to right: whitespace is skipped where a byte may
\* start, a byte is two adjacent hex digits; anything else ends the result
\* with -1 (the ValueError).
RECURSIVE HexPairs(_)
HexPairs(s) ==
    IF s = "" THEN <<>>
    ELSE IF IsSpace(Char(s, 1)) THEN HexPairs(Rest(s, 1))
    ELSE IF Len(s) >= 2 /\ HexVal(Char(s, 1)) >= 0 /\ HexVal(Char(s, 2)) >= 0
    THEN <<16 * HexVal(Char(s, 1)) + HexVal(Char(s, 2))>> \o HexPairs(Rest(s, 2))
    ELSE <<-1>>

\* bytes.fromhex accepts the text.
ValidHex(s) ==
    \/ PlainHex(s)
    \/ HasSpace(s) /\ \A i \in DOMAIN HexPairs(s) : HexPairs(s)[i] >= 0

\* bytes.fromhex on accepted text: one byte per pair of digits.
FromHex(s) ==
    IF HasSpace(s) THEN HexPairs(s)
    ELSE [i \in 1..(Len(s) \div 2) |->
            16 * HexVal(Char(s, 2 * i - 1)) + HexVal(Char(s, 2 * i))]

(***************************************************************************)
(* BS2PROHIDController: construction                                       *)
(***************************************************************************)
HidInit ==
    /\ device = None
    /\ vendor_id = None
    /\ product_id = None
    /\ openHandles = {}
    /\ nextHandle = 1
    /\ nonblocking = FALSE
    /\ wire = <<>>
    /\ command = <<>>
    /\ closed = FALSE
    /\ attempts = <<>>

CallInit == op = "init" /\ args = <<>> /\ result = "None"

BleInit == data = <<>> /\ parsed = <<>> /\ events = <<>>

\* BS2PROMonitor() in main, the signal handlers installed, nothing scanned yet.
MonInit ==
    /\ pc = "main"
    /\ running = FALSE
    /\ stop_requested = FALSE
    /\ notification_chars = {}
    /\ target_chars = {}
    /\ selected_char = None
    /\ subscribed = {}
    /\ stop_issued = {}

\* No command list yet.
BatchInit == test_commands = <<>> /\ write_ok = <<>>

\* No HID interface present.
ScanInit == enumerated = <<>> /\ open_outcomes = <<>>

Init == HidInit /\ CallInit /\ BleInit /\ MonInit /\ BatchInit /\ ScanInit

(***************************************************************************)
(* BS2PROHIDController: connection                                         *)
(***************************************************************************)
\* The controller's fields together with the hid library's handle bookkeeping.
Sess ==
    [device |-> device, vendor_id |-> vendor_id, product_id |-> product_id,
     openHandles |-> openHandles, nextHandle |-> nextHandle]

\* What device.open / the info-string getters can do.
OpenOutcomes == {"ok", "open_raises", "info_raises"}

\* _try_connect(vendor_id, product_id) on session s.  self.device is first
\* overwritten with a fresh hid.device(): the handle held before is not closed
\* by this code; whether the runtime finalizes it when the reference is
\* dropped depends on the hid binding, so `fin` is either.
try_connect(s, vid, pid, outcome, fin) ==
    LET h == s.nextHandle
        kept == IF s.device # None /\ fin THEN s.openHandles \ {s.device}
                ELSE s.openHandles
    IN  CASE outcome = "ok" ->
               [s |-> [device |-> h, vendor_id |-> vid, product_id |-> pid,
                       openHandles |-> kept \cup {h}, nextHandle |-> h + 1],
                ret |-> TRUE]
          [] outcome = "open_raises" ->
               \* open() raised: the fresh handle is closed and dropped
               [s |-> [device |-> None, vendor_id |-> s.vendor_id,
                       product_id |-> s.product_id,
                       openHandles |-> kept, nextHandle |-> h + 1],
                ret |-> FALSE]
          [] OTHER ->
               \* opened, ids stored, then an info getter raised: closed again
               [s |-> [device |-> None, vendor_id |-> vid, product_id |-> pid,
                       openHandles |-> kept, nextHandle |-> h + 1],
                ret |-> FALSE]

\* The (vendor id, product id) pairs connect is called with.
IdInputs == {<<79831, 4098>>}

\* connect(vendor_id, product_id) with both ids given.
Connect ==
    \E id \in IdInputs, outcome \in OpenOutcomes, fin \in BOOLEAN :
        /\ nextHandle <= MaxHandles
        /\ LET r == try_connect(Sess, id[1], id[2], outcome, fin) IN
            /\ device' = r.s.device
            /\ vendor_id' = r.s.vendor_id
            /\ product_id' = r.s.product_id
            /\ openHandles' = r.s.openHandles
            /\ nextHandle' = r.s.nextHandle
            /\ result' = IF r.ret THEN "True" ELSE "False"
        /\ op' = "connect"
        /\ args' = id
        /\ attempts' = <<id>>
        /\ nonblocking' = FALSE
        /\ wire' = <<>>
        /\ command' = <<>>
        /\ UNCHANGED <<closed, bleVars>>

(***************************************************************************)
(* BS2PROHIDController: discovery and connect() without ids                *)
(***************************************************************************)
\* str.upper() on ASCII text.
UpperChar(c) ==
    LET lower == "abcdefghijklmnopqrstuvwxyz"
        upper == "ABCDEFGHIJKLMNOPQRSTUVWXYZ"
    IN  IF \E i \in 1..26 : Char(lower, i) = c
        THEN Char(upper, CHOOSE i \in 1..26 : Char(lower, i) = c)
        ELSE c

RECURSIVE Upper(_)
Upper(s) == IF s = "" THEN "" ELSE UpperChar(Char(s, 1)) \o Upper(Rest(s, 1))

\* f"{n:04X}": upper-case hex, zero-filled to four digits at least.
RECURSIVE HexUpper(_)
HexUpper(n) ==
    IF n < 16 THEN Char("0123456789ABCDEF", n + 1)
    ELSE HexUpper(n \div 16) \o Char("0123456789ABCDEF", (n % 16) + 1)

Hex04X(n) ==
    LET h == HexUpper(n) IN
    IF Len(h) >= 4 THEN h ELSE SubSeq("0000", 1, 4 - Len(h)) \o h

known_bs2pro_devices == <<(<<79831, 4098, "FlyDigi BS2PRO">>)>>

search_terms == {"BS2PRO", "FLYDIGI", "FLY", "CONTROLLER", "GAMEPAD"}

common_gamepad_vendors == {11720, 1118, 1356, 1406, 3853, 10462, 79831}

\* The pairs already in the list: [(v, p) for v, p, _ in devices].
Pairs(devices) == {<<devices[i][1], devices[i][2]>> : i \in DOMAIN devices}

\* One pass of the enumeration loop that appends every potential device,
\* whether or not its pair is in the list already.
scan_one_no_dedupe(devices, device_info) ==
    LET vid == device_info.vendor_id
        pid == device_info.product_id
        is_match ==
            \/ \E manufacturer \in {Upper(device_info.manufacturer_string)},
                  product_name \in {Upper(device_info.product_string)} :
                  \E term \in search_terms :
                      Occurs(manufacturer, term) \/ Occurs(product_name, term)
            \/ vid \in common_gamepad_vendors
    IN  IF is_match
        THEN Append(devices, <<vid, pid, device_info.product_string>>)
        ELSE devices

\* One pass of the loop over hid.enumerate() in find_bs2pro_devices: the
\* known devices are appended first (the continue there continues the loop
\* over the known devices only), then the extended search runs and appends
\* the match unless its pair is in the list already.
scan_one(devices, device_info) ==
    LET vid == device_info.vendor_id
        pid == device_info.product_id
        known == SelectSeq(known_bs2pro_devices,
                           LAMBDA k : vid = k[1] /\ pid = k[2])
        d1 == devices \o [i \in DOMAIN known |-> <<vid, pid, known[i][3]>>]
        is_match ==
            \/ \E manufacturer \in {Upper(device_info.manufacturer_string)},
                  product_name \in {Upper(device_info.product_string)} :
                  \E term \in search_terms :
                      Occurs(manufacturer, term) \/ Occurs(product_name, term)
            \/ vid \in common_gamepad_vendors
        name == IF device_info.product_string # ""
                THEN device_info.product_string
                ELSE "Unknown-" \o Hex04X(vid) \o ":" \o Hex04X(pid)
    IN  IF is_match /\ <<vid, pid>> \notin Pairs(d1)
        THEN Append(d1, <<vid, pid, name>>)
        ELSE d1

\* find_bs2pro_devices() when hid.enumerate() lists infos.
RECURSIVE find_bs2pro_devices(_)
find_bs2pro_devices(infos) ==
    IF infos = <<>> THEN <<>>
    ELSE scan_one(find_bs2pro_devices(SubSeq(infos, 1, Len(infos) - 1)),
                  infos[Len(infos)])

\* The loop of connect() over the devices found, from the i-th on: the first
\* _try_connect that returns True ends it.
RECURSIVE connect_each(_, _, _, _, _, _)
connect_each(s, devices, i, outcomes, fin, tried) ==
    IF i > Len(devices) THEN [s |-> s, ret |-> FALSE, attempts |-> tried]
    ELSE LET vid == devices[i][1]
             pid == devices[i][2]
             r == try_connect(s, vid, pid, outcomes[i], fin)
         IN  IF r.ret
             THEN [s |-> r.s, ret |-> TRUE, attempts |-> Append(tried, <<vid, pid>>)]
             ELSE connect_each(r.s, devices, i + 1, outcomes, fin,
                               Append(tried, <<vid, pid>>))

\* connect() with no ids on session s; enumerate_raises: hid.enumerate()
\* raises, which connect answers with False.
connect(s, infos, enumerate_raises, outcomes, fin) ==
    IF enumerate_raises THEN [s |-> s, ret |-> FALSE, attempts |-> <<>>]
    ELSE connect_each(s, find_bs2pro_devices(infos), 1, outcomes, fin, <<>>)

ConnectAuto ==
    \E enumerate_raises \in BOOLEAN, fin \in BOOLEAN :
        /\ nextHandle <= MaxHandles
        /\ \E r \in {connect(Sess, enumerated, enumerate_raises, open_outcomes, fin)} :
            /\ device' = r.s.device
            /\ vendor_id' = r.s.vendor_id
            /\ product_id' = r.s.product_id
            /\ openHandles' = r.s.openHandles
            /\ nextHandle' = r.s.nextHandle
            /\ result' = IF r.ret THEN "True" ELSE "False"
            /\ attempts' = r.attempts
        /\ op' = "connect"
        /\ args' = <<>>
        /\ nonblocking' = (nonblocking /\ attempts' = <<>>)
        /\ wire' = <<>>
        /\ command' = <<>>
        /\ UNCHANGED <<closed, bleVars>>

\* disconnect() without its try/except: an exception of close() reaches the caller.
disconnect_uncaught(dev, closeRaises) ==
    IF dev # None /\ closeRaises
    THEN [device |-> dev, closes |-> {dev}, ret |-> "Raised"]
    ELSE [device |-> None, closes |-> IF dev # None THEN {dev} ELSE {}, ret |-> "None"]

\* disconnect() that closes the handle but never resets self.device.
disconnect_keeps_device(dev, closeRaises) ==
    [device |-> dev, closes |-> IF dev # None THEN {dev} ELSE {}, ret |-> "None"]

\* disconnect() on a session holding `dev`; closeRaises: device.close() raises.
\* The bare except swallows it.
disconnect(dev, closeRaises) ==
    [device |-> None, closes |-> IF dev # None THEN {dev} ELSE {}, ret |-> "None"]

Disconnect ==
    \E closeRaises \in BOOLEAN :
        LET r == disconnect(device, closeRaises) IN
        /\ device' = r.device
        /\ openHandles' = openHandles \ r.closes
        /\ nonblocking' = FALSE
        /\ result' = r.ret
        /\ op' = "disconnect"
        /\ args' = <<>>
        /\ closed' = TRUE
        /\ wire' = <<>>
        /\ command' = <<>>
        /\ UNCHANGED <<vendor_id, product_id, nextHandle, attempts, bleVars>>

(***************************************************************************)
(* BS2PROHIDController: reports                                            *)
(***************************************************************************)
\* send_output_report gated on self.vendor_id, which disconnect() never resets,
\* instead of on self.device.
send_output_report_stale(dev, bytes, wok) ==
    IF vendor_id = None THEN [wrote |-> FALSE, report |-> <<>>, ret |-> "False"]
    ELSE [wrote |-> TRUE, report |-> bytes, ret |-> IF wok THEN "True" ELSE "False"]

\* send_output_report(data) on a session holding `dev`; wok: device.write returns.
send_output_report(dev, bytes, wok) ==
    IF dev = None THEN [wrote |-> FALSE, report |-> <<>>, ret |-> "False"]
    ELSE [wrote |-> TRUE, report |-> bytes, ret |-> IF wok THEN "True" ELSE "False"]

\* send_feature_report(report_id, data); bytes([report_id]) raises ValueError
\* outside 0..255, which the except turns into False.
send_feature_report(dev, report_id, bytes, wok) ==
    IF dev = None THEN [wrote |-> FALSE, report |-> <<>>, ret |-> "False"]
    ELSE IF report_id \notin 0..255 THEN [wrote |-> FALSE, report |-> <<>>, ret |-> "False"]
    ELSE [wrote |-> TRUE, report |-> <<report_id>> \o bytes,
          ret |-> IF wok THEN "True" ELSE "False"]

\* The effect of a sending call on the variables: e is [wrote, report, ret, built].
Sent(name, a, e) ==
    /\ op' = name
    /\ args' = a
    /\ result' = e.ret
    /\ command' = e.built
    /\ wire' = IF e.wrote THEN <<e.report>> ELSE <<>>
    /\ UNCHANGED <<device, vendor_id, product_id, openHandles, nextHandle,
                   nonblocking, closed, attempts, bleVars>>

\* A raw send builds no hex command.
Raw(e) == [wrote |-> e.wrote, report |-> e.report, ret |-> e.ret, built |-> <<>>]

DataInputs == {<<>>, <<2, 90, 165, 65, 2, 67>>}
ReportIdInputs == {2, 256}

SendOutputReport ==
    \E bytes \in DataInputs, wok \in BOOLEAN :
        Sent("send_output_report", <<bytes>>, Raw(send_output_report(device, bytes, wok)))

SendFeatureReport ==
    \E rid \in ReportIdInputs, bytes \in DataInputs, wok \in BOOLEAN :
        Sent("send_feature_report", <<rid, bytes>>,
             Raw(send_feature_report(device, rid, bytes, wok)))

\* read_input_report(timeout) on a session holding `dev`.
ReadOutcomes == {"data", "empty", "mode_raises", "read_raises"}

\* read_input_report that lets a timeout of device.read reach the caller as
\* an exception.
read_input_report_timeout_raises(dev, outcome) ==
    IF dev = None THEN [mode |-> FALSE, ret |-> "None"]
    ELSE IF outcome = "mode_raises" THEN [mode |-> FALSE, ret |-> "None"]
    ELSE [mode |-> TRUE,
          ret |-> IF outcome = "data" THEN "Data"
                  ELSE IF outcome = "empty" THEN "Raised" ELSE "None"]

read_input_report(dev, outcome) ==
    IF dev = None THEN [mode |-> FALSE, ret |-> "None"]
    ELSE IF outcome = "mode_raises" THEN [mode |-> FALSE, ret |-> "None"]
    ELSE [mode |-> TRUE, ret |-> IF outcome = "data" THEN "Data" ELSE "None"]

ReadInputReport ==
    \E outcome \in ReadOutcomes :
        LET r == read_input_report(device, outcome) IN
        /\ nonblocking' = (nonblocking \/ r.mode)
        /\ result' = r.ret
        /\ op' = "read_input_report"
        /\ args' = <<1000>>
        /\ wire' = <<>>
        /\ command' = <<>>
        /\ UNCHANGED <<device, vendor_id, product_id, openHandles, nextHandle,
                       closed, attempts, bleVars>>

(***************************************************************************)
(* BS2PROHIDController: hex commands and the command catalog               *)
(***************************************************************************)
\* send_hex_command(hex_string, report_id, padding_length) on a session
\* holding `dev`: spaces and every "0x" are removed, the rest is decoded as
\* hex (ValueError: False), the payload is zero-padded up to padding_length - 1
\* bytes when shorter (a longer one is only warned about and kept whole), and
\* the report id followed by the payload goes to send_output_report.
send_hex_command(dev, hex_string, report_id, padding_length, wok) ==
    LET text == RemoveAll(RemoveAll(hex_string, " "), "0x") IN
    IF ~ValidHex(text) \/ report_id \notin 0..255
    THEN [wrote |-> FALSE, report |-> <<>>, ret |-> "False", built |-> <<>>]
    ELSE LET payload == FromHex(text)
             needed == padding_length - 1 - Len(payload)
             padding_needed == IF needed < 0 THEN 0 ELSE needed
             cmd == <<report_id>> \o payload \o Zeros(padding_needed)
             e == send_output_report(dev, cmd, wok)
         IN  [wrote |-> e.wrote, report |-> e.report, ret |-> e.ret, built |-> cmd]

\* The defaults of send_hex_command's report_id and padding_length.
DefaultReportId == 2
DefaultPaddingLength == 23

\* Command texts: plain, spaced, with a leading 0x, with a 0x inside, with a
\* tab between two bytes and inside one, with a capital 0X, of 24 bytes, with
\* an odd number of digits, with characters that are no hex digits.
HexInputs ==
    {"5aa5410243", "5a a5 41 02 43", "0x5aa5410243", "5a0xa5", "5a\ta5", "5\taa5",
     "0X5aa5", "5aa54803014c000000000000000000000000000000000000",
     "5aa54803014b0", "5aa5zz", "5ax5"}

\* The values of padding_length: the default, and the length of a report
\* that holds a 24-byte frame.
PaddingInputs == {DefaultPaddingLength, 25}

SendHexCommand ==
    \E h \in HexInputs, padding_length \in PaddingInputs, wok \in BOOLEAN :
        Sent("send_hex_command", <<h, padding_length>>,
             send_hex_command(device, h, DefaultReportId, padding_length, wok))

\* str.strip()
RECURSIVE lstrip(_)
lstrip(s) == IF s # "" /\ IsSpace(Char(s, 1)) THEN lstrip(Rest(s, 1)) ELSE s

RECURSIVE rstrip(_)
rstrip(s) ==
    IF s # "" /\ IsSpace(Char(s, Len(s))) THEN rstrip(SubSeq(s, 1, Len(s) - 1)) ELSE s

strip(s) == rstrip(lstrip(s))

\* What one pass of the loop of send_multiple_commands contributes.
Attempt(e) ==
    [reports |-> IF e.wrote THEN <<e.report>> ELSE <<>>,
     success_count |-> IF e.ret = "True" THEN 1 ELSE 0]

\* send_multiple_commands that sends a command once more when it failed.
RECURSIVE send_multiple_commands_retry(_, _, _)
send_multiple_commands_retry(dev, commands, woks) ==
    IF commands = <<>> THEN [reports |-> <<>>, success_count |-> 0]
    ELSE LET cmd == strip(Head(commands))
             rest == send_multiple_commands_retry(dev, Tail(commands), Tail(woks))
             first == Attempt(send_hex_command(dev, cmd, DefaultReportId,
                                               DefaultPaddingLength, Head(woks)))
             again == Attempt(send_hex_command(dev, cmd, DefaultReportId,
                                               DefaultPaddingLength, TRUE))
         IN  IF cmd = "" THEN rest
             ELSE IF first.success_count = 1
             THEN [reports |-> first.reports \o rest.reports,
                   success_count |-> 1 + rest.success_count]
             ELSE [reports |-> first.reports \o again.reports \o rest.reports,
                   success_count |-> again.success_count + rest.success_count]

\* send_multiple_commands(commands) on a session holding `dev`: the reports
\* written, in order, and the count returned.  woks[i]: device.write returns
\* for the i-th command, should it come to a write.
RECURSIVE send_multiple_commands(_, _, _)
send_multiple_commands(dev, commands, woks) ==
    IF commands = <<>> THEN [reports |-> <<>>, success_count |-> 0]
    ELSE LET cmd == strip(Head(commands))
             rest == send_multiple_commands(dev, Tail(commands), Tail(woks))
             this == Attempt(send_hex_command(dev, cmd, DefaultReportId,
                                              DefaultPaddingLength, Head(woks)))
         IN  IF cmd = "" THEN rest
             ELSE [reports |-> this.reports \o rest.reports,
                   success_count |-> this.success_count + rest.success_count]

\* Entries of a command list: a blank one, two commands (one with
\* whitespace around it), and one that is no hex text.
CmdInputs == {" ", " 5aa5410243\n", "5aa5230225", "5aa5zz"}

\* The command lists of up to MaxCommands entries.
CommandLists == UNION {[1..n -> CmdInputs] : n \in 0..MaxCommands}

\* controller.send_multiple_commands(test_commands, ...)
SendMultipleCommands ==
    LET r == send_multiple_commands(device, test_commands, write_ok) IN
    /\ op' = "send_multiple_commands"
    /\ args' = <<test_commands>>
    /\ result' = r.success_count
    /\ wire' = r.reports
    /\ command' = <<>>
    /\ UNCHANGED <<device, vendor_id, product_id, openHandles, nextHandle,
                   nonblocking, closed, attempts, bleVars>>

\* rpm.to_bytes(2, "little")
to_bytes_little(rpm) == <<rpm % 256, rpm \div 256>>

\* calculate_checksum without the + 1.
calculate_checksum_plain_sum(rpm) ==
    LET speed_bytes == to_bytes_little(rpm) IN
    (90 + 165 + 33 + 4 + speed_bytes[1] + speed_bytes[2]) % 256

\* calculate_checksum(rpm)
calculate_checksum(rpm) ==
    LET speed_bytes == to_bytes_little(rpm) IN
    (90 + 165 + 33 + 4 + speed_bytes[1] + speed_bytes[2] + 1) % 256

\* The command text set_fan_speed formats for an rpm in range.
speed_command(rpm) ==
    "5aa52104" \o BytesHex(to_bytes_little(rpm)) \o ToHex2(calculate_checksum(rpm))
        \o "00000000000000000000000000000000"

\* set_fan_speed(rpm)
set_fan_speed(dev, rpm, wok) ==
    IF ~(0 <= rpm /\ rpm <= 65535)
    THEN [wrote |-> FALSE, report |-> <<>>, ret |-> "False", built |-> <<>>]
    ELSE send_hex_command(dev, speed_command(rpm), DefaultReportId,
                          DefaultPaddingLength, wok)

RpmInputs == {-1, 0, 255, 256, 1500, 2000, 65535, 65536}

SetFanSpeed ==
    \E rpm \in RpmInputs, wok \in BOOLEAN :
        Sent("set_fan_speed", <<rpm>>, set_fan_speed(device, rpm, wok))

\* The dictionary of set_gear_position: its keys, and the command text of each.
gear_keys ==
    {<<1, 1>>, <<1, 2>>, <<1, 3>>,
     <<2, 1>>, <<2, 2>>, <<2, 3>>,
     <<3, 1>>, <<3, 2>>, <<3, 3>>,
     <<4, 1>>, <<4, 2>>, <<4, 3>>}

gear_positions ==
    [k \in gear_keys |->
        CASE k = <<1, 1>> -> "5aa526050014054400000000000000000000000000000000"
          [] k = <<1, 2>> -> "5aa5260500a406d500000000000000000000000000000000"
          [] k = <<1, 3>> -> "5aa52605006c079e00000000000000000000000000000000"
          [] k = <<2, 1>> -> "5aa526050134086800000000000000000000000000000000"
          [] k = <<2, 2>> -> "5aa526050160099500000000000000000000000000000000"
          [] k = <<2, 3>> -> "5aa52605018c0ac200000000000000000000000000000000"
          [] k = <<3, 1>> -> "5aa5260502f00a2700000000000000000000000000000000"
          [] k = <<3, 2>> -> "5aa5260502b80bf000000000000000000000000000000000"
          [] k = <<3, 3>> -> "5aa5260502e40c1d00000000000000000000000000000000"
          [] k = <<4, 1>> -> "5aa5260503ac0de700000000000000000000000000000000"
          [] k = <<4, 2>> -> "5aa5260503740eb000000000000000000000000000000000"
          [] k = <<4, 3>> -> "5aa5260503a00fdd00000000000000000000000000000000"]

\* set_gear_position that clamps gear and position into the table's range.
set_gear_position_clamped(dev, gear, position, wok) ==
    LET g == IF gear < 1 THEN 1 ELSE IF gear > 4 THEN 4 ELSE gear
        q == IF position < 1 THEN 1 ELSE IF position > 3 THEN 3 ELSE position
    IN  send_hex_command(dev, gear_positions[<<g, q>>], DefaultReportId,
                         DefaultPaddingLength, wok)

\* set_gear_position(gear, position)
set_gear_position(dev, gear, position, wok) ==
    IF <<gear, position>> \notin DOMAIN gear_positions
    THEN [wrote |-> FALSE, report |-> <<>>, ret |-> "False", built |-> <<>>]
    ELSE send_hex_command(dev, gear_positions[<<gear, position>>], DefaultReportId,
                          DefaultPaddingLength, wok)

GearInputs == (0..5) \X (0..4)

SetGearPosition ==
    \E gp \in GearInputs, wok \in BOOLEAN :
        Sent("set_gear_position", gp, set_gear_position(device, gp[1], gp[2], wok))

\* enter_realtime_speed_mode()
enter_realtime_speed_mode(dev, wok) ==
    send_hex_command(dev, "5aa523022500000000000000000000000000000000000000",
                     DefaultReportId, DefaultPaddingLength, wok)

EnterRealtimeSpeedMode ==
    \E wok \in BOOLEAN :
        Sent("enter_realtime_speed_mode", <<>>, enter_realtime_speed_mode(device, wok))

\* set_gear_light whose "on" text carries the check byte of the "off" text.
set_gear_light_stale_checksum(dev, enabled, wok) ==
    send_hex_command(dev,
                     IF enabled THEN "5aa54803014b000000000000000000000000000000000000"
                     ELSE "5aa54803004b000000000000000000000000000000000000",
                     DefaultReportId, DefaultPaddingLength, wok)

\* set_gear_light(enabled)
set_gear_light(dev, enabled, wok) ==
    send_hex_command(dev,
                     IF enabled THEN "5aa54803014c000000000000000000000000000000000000"
                     ELSE "5aa54803004b000000000000000000000000000000000000",
                     DefaultReportId, DefaultPaddingLength, wok)

SetGearLight ==
    \E enabled \in BOOLEAN, wok \in BOOLEAN :
        Sent("set_gear_light", <<enabled>>, set_gear_light(device, enabled, wok))

\* set_power_on_start(enabled)
set_power_on_start(dev, enabled, wok) ==
    send_hex_command(dev,
                     IF enabled THEN "5aa50c030211000000000000000000000000000000000000"
                     ELSE "5aa50c030110000000000000000000000000000000000000",
                     DefaultReportId, DefaultPaddingLength, wok)

SetPowerOnStart ==
    \E enabled \in BOOLEAN, wok \in BOOLEAN :
        Sent("set_power_on_start", <<enabled>>, set_power_on_start(device, enabled, wok))

\* The dictionary of set_smart_start_stop: its keys, and the command text of each.
smart_modes == {"off", "immediate", "delayed"}

smart_commands ==
    [m \in smart_modes |->
        CASE m = "off" -> "5aa50d030010000000000000000000000000000000000000"
          [] m = "immediate" -> "5aa50d030111000000000000000000000000000000000000"
          [] m = "delayed" -> "5aa50d030212000000000000000000000000000000000000"]

\* set_smart_start_stop(mode)
set_smart_start_stop(dev, mode, wok) ==
    IF mode \notin DOMAIN smart_commands
    THEN [wrote |-> FALSE, report |-> <<>>, ret |-> "False", built |-> <<>>]
    ELSE send_hex_command(dev, smart_commands[mode], DefaultReportId,
                          DefaultPaddingLength, wok)

ModeInputs == {"off", "immediate", "delayed", "Off", "auto", ""}

SetSmartStartStop ==
    \E mode \in ModeInputs, wok \in BOOLEAN :
        Sent("set_smart_start_stop", <<mode>>, set_smart_start_stop(device, mode, wok))

\* The two command texts of set_brightness.
brightness_0 == "5aa5470d1c00ff00000000000000006f0000000000000000"
brightness_100 == "5aa543024500000000000000000000000000000000000000"

\* set_brightness that rounds a percentage to the nearer supported one.
set_brightness_rounded(dev, percentage, wok) ==
    send_hex_command(dev, IF percentage < 50 THEN brightness_0 ELSE brightness_100,
                     DefaultReportId, DefaultPaddingLength, wok)

\* set_brightness(percentage)
set_brightness(dev, percentage, wok) ==
    IF percentage = 0
    THEN send_hex_command(dev, brightness_0, DefaultReportId, DefaultPaddingLength, wok)
    ELSE IF percentage = 100
    THEN send_hex_command(dev, brightness_100, DefaultReportId, DefaultPaddingLength, wok)
    ELSE [wrote |-> FALSE, report |-> <<>>, ret |-> "False", built |-> <<>>]

BrightnessInputs == {-1, 0, 1, 50, 99, 100, 101}

SetBrightness ==
    \E percentage \in BrightnessInputs, wok \in BOOLEAN :
        Sent("set_brightness", <<percentage>>, set_brightness(device, percentage, wok))

\* test_bs2pro_with_commands: a controller, a command list, and then connect,
\* send_multiple_commands, reads and disconnect.
InitBatch ==
    /\ HidInit /\ CallInit /\ BleInit /\ MonInit /\ ScanInit
    /\ test_commands \in CommandLists
    /\ write_ok \in [1..Len(test_commands) -> BOOLEAN]

NextBatch == Connect \/ SendMultipleCommands \/ ReadInputReport \/ Disconnect

SpecBatch == InitBatch /\ [][NextBatch]_vars

(***************************************************************************)
(* Sessions that connect by discovery: a host with some HID interfaces     *)
(* present, a controller that is connected without ids, with ids, and      *)
(* disconnected.                                                           *)
(***************************************************************************)
\* HID interfaces as hid.enumerate() describes them; the ids are those of USB
\* descriptors, 16 bits each.
DeviceInfos ==
    {[vendor_id |-> 14295, product_id |-> 4098,
      manufacturer_string |-> "Flydigi", product_string |-> "BS2PRO"],
     [vendor_id |-> 10462, product_id |-> 4418,
      manufacturer_string |-> "", product_string |-> ""],
     [vendor_id |-> 1133, product_id |-> 50475,
      manufacturer_string |-> "Logitech", product_string |-> "USB Receiver"]}

EnumInputs == UNION {[1..n -> DeviceInfos] : n \in 0..MaxEnumerated}

InitAuto ==
    /\ HidInit /\ CallInit /\ BleInit /\ MonInit /\ BatchInit
    /\ enumerated \in EnumInputs
    /\ open_outcomes \in [1..Len(find_bs2pro_devices(enumerated)) -> OpenOutcomes]

NextAuto == ConnectAuto \/ Disconnect

SpecAuto == InitAuto /\ [][NextAuto]_vars

Next ==
    \/ Connect \/ Disconnect \/ SendOutputReport \/ SendFeatureReport
    \/ ReadInputReport \/ SendHexCommand \/ SetFanSpeed \/ SetGearPosition
    \/ EnterRealtimeSpeedMode \/ SetGearLight \/ SetPowerOnStart
    \/ SetSmartStartStop \/ SetBrightness

Spec == Init /\ [][Next]_vars

(***************************************************************************)
(* Properties of the HID session (specification Spec)                      *)
(***************************************************************************)
SendOps ==
    {"send_output_report", "send_feature_report", "send_hex_command",
     "set_fan_speed", "set_gear_position", "enter_realtime_speed_mode",
     "set_gear_light", "set_power_on_start", "set_smart_start_stop",
     "set_brightness"}

\* C1: a send reaches the device only while the session holds an open
\* device: a send on a session holding none returns False and writes nothing,
\* a send that returned True wrote, and send_output_report on a bound session
\* writes its data whether or not a read was ever started.
C1_SendGating ==
    op \in SendOps =>
        /\ (wire # <<>> => device # None /\ device \in openHandles)
        /\ (device = None => result = "False" /\ wire = <<>>)
        /\ (result = "True" => wire # <<>>)
        /\ (op = "send_output_report" /\ device # None => wire = <<args[1]>>)

\* C1 witness: right after a bind, speed(1500) was sent with success and no
\* read was ever started on the handle.
C1_Witness ==
    /\ op = "set_fan_speed" /\ args = <<1500>> /\ result = "True"
    /\ device # None /\ ~nonblocking /\ ~closed

\* C2: disconnect() never raises and leaves the session with no device, the
\* handle it held closed; a disconnect() right after a disconnect() changes
\* nothing.
C2_CloseIdempotent ==
    [][op' = "disconnect" =>
          /\ result' = "None"
          /\ device' = None
          /\ openHandles' = openHandles \ {device}
          /\ (op = "disconnect" => UNCHANGED vars)]_vars

\* C2 witness: a session that was bound has been disconnected.
C2_Witness ==
    op = "disconnect" /\ closed /\ device = None /\ nextHandle > 1 /\ openHandles = {}

C4_AtMostOneTransport ==
    /\ [](Cardinality(openHandles) <= 1 /\ (op = "disconnect" => openHandles = {}))
    /\ [][op' = "connect" /\ device # None =>
             result' = "False" /\ device' = device /\ openHandles' = openHandles]_vars

\* The speed frame as C5 and C6 describe it: 25 bytes, 5A A5 21 04, the rpm
\* little-endian, the checksum byte, then zeros.
IsSpeedFrame25(f, rpm, checksum) ==
    /\ Len(f) = 25
    /\ SubSeq(f, 1, 4) = <<90, 165, 33, 4>>
    /\ f[5] = rpm % 256
    /\ f[6] = rpm \div 256
    /\ f[7] = checksum
    /\ \A i \in 8..25 : f[i] = 0

\* C5 as claimed: for every rpm in 0..65535 the command set_fan_speed builds
\* is such a 25-byte frame with checksum (5A+A5+21+04+lo+hi+1) mod 256, read
\* either as the whole report or as the bytes behind its report id.
C5_SpeedFrame25 ==
    (op = "set_fan_speed" /\ args[1] >= 0 /\ args[1] <= 65535) =>
        LET rpm == args[1]
            sum == (90 + 165 + 33 + 4 + (rpm % 256) + (rpm \div 256) + 1) % 256
        IN  \/ IsSpeedFrame25(command, rpm, sum)
            \/ (command # <<>> /\ IsSpeedFrame25(Tail(command), rpm, sum))

\* C6 as claimed: speed(2000) is a 25-byte frame beginning 5A A5 21 04 D0 07 33.
C6_Speed2000_Checksum33 ==
    (op = "set_fan_speed" /\ args = <<2000>>) =>
        \/ IsSpeedFrame25(command, 2000, 51)
        \/ (command # <<>> /\ IsSpeedFrame25(Tail(command), 2000, 51))

\* C6 as amended: speed(2000) is the report id 02 followed by the frame
\* 5A A5 21 04 D0 07 FC and sixteen zero bytes (23 bytes), and that report is
\* what a bound session writes.
C6_Speed2000_ChecksumFC ==
    (op = "set_fan_speed" /\ args = <<2000>>) =>
        /\ command = <<2, 90, 165, 33, 4, 208, 7, 252>> \o Zeros(16)
        /\ (device # None => wire = <<command>>)
        /\ (device = None => wire = <<>>)

\* C6 witness: speed(2000) was written by a bound session.
C6_Witness ==
    op = "set_fan_speed" /\ args = <<2000>> /\ result = "True" /\ Len(wire) = 1

\* The 12 gear frames are pairwise different, as text and as bytes.
GearFramesDistinct ==
    \A k1 \in gear_keys, k2 \in gear_keys :
        k1 # k2 => /\ gear_positions[k1] # gear_positions[k2]
                   /\ FromHex(gear_positions[k1]) # FromHex(gear_positions[k2])

\* C10: the gear command is defined for exactly the 12 pairs of
\* {1..4} x {1..3}, each with a frame of its own; set_gear_position on such a
\* pair builds the report of that frame (and a bound session writes it), and
\* on any other pair it returns False, builds nothing and writes nothing.
C10_GearTable ==
    /\ gear_keys = (1..4) \X (1..3)
    /\ GearFramesDistinct
    /\ op = "set_gear_position" =>
          IF args \in (1..4) \X (1..3)
          THEN /\ command = <<2>> \o FromHex(gear_positions[args])
               /\ (device # None => wire = <<command>>)
          ELSE result = "False" /\ wire = <<>> /\ command = <<>>

\* C10 witness: a bound session was asked for gear 5, position 1 and refused.
C10_Witness ==
    /\ op = "set_gear_position" /\ args = <<5, 1>> /\ device # None
    /\ result = "False" /\ wire = <<>>

\* C11: set_brightness accepts exactly the percentages 0 and 100: for each of
\* them it builds the report of its own fixed frame (and a bound session
\* writes it), the two frames being different; for every other percentage it
\* returns False, builds nothing and writes nothing.
C11_BrightnessExact ==
    /\ FromHex(brightness_0) # FromHex(brightness_100)
    /\ op = "set_brightness" =>
          IF args[1] \in {0, 100}
          THEN /\ command = <<2>> \o FromHex(IF args[1] = 0 THEN brightness_0
                                             ELSE brightness_100)
               /\ (device # None => wire = <<command>>)
          ELSE result = "False" /\ wire = <<>> /\ command = <<>>

\* C11 witness: a bound session was asked for 50 percent and refused.
C11_Witness ==
    /\ op = "set_brightness" /\ args = <<50>> /\ device # None
    /\ result = "False" /\ wire = <<>>

\* Hex command text as the specification reads it: all whitespace removed,
\* then one leading "0x" removed; it is malformed unless what is left is an
\* even number of hex digits.
RECURSIVE Unspaced(_)
Unspaced(s) ==
    IF s = "" THEN ""
    ELSE IF IsSpace(Char(s, 1)) THEN Unspaced(Rest(s, 1))
    ELSE Char(s, 1) \o Unspaced(Rest(s, 1))

Stripped(s) ==
    LET t == Unspaced(s) IN
    IF Len(t) >= 2 /\ SubSeq(t, 1, 2) = "0x" THEN Rest(t, 2) ELSE t

MalformedHex(s) == ~PlainHex(Stripped(s))

\* The last call was a command call with invalid parameters.
InvalidCall ==
    \/ op = "set_fan_speed" /\ args[1] \notin 0..65535
    \/ op = "set_gear_position" /\ args \notin (1..4) \X (1..3)
    \/ op = "set_smart_start_stop" /\ args[1] \notin {"off", "immediate", "delayed"}
    \/ op = "set_brightness" /\ args[1] \notin {0, 100}
    \/ op = "send_hex_command" /\ MalformedHex(args[1])

\* C12 as claimed: a command call with invalid parameters (rpm outside
\* 0..65535, gear pair outside the table, unknown smart start/stop mode,
\* unsupported brightness, malformed hex text) returns False, builds and
\* writes nothing, and leaves the device held and the open handles as they were.
C12_FailFast ==
    /\ [](InvalidCall => result = "False" /\ wire = <<>> /\ command = <<>>)
    /\ [][op' \in SendOps => device' = device /\ openHandles' = openHandles]_vars

\* C13 as claimed: a write, a read or a connect attempt that fails leaves the
\* session as it was: the same device is held afterwards (none if none was),
\* and no handle was opened or closed.
C13_LastGoodState ==
    [][(\/ op' \in SendOps \cup {"connect"} /\ result' = "False"
        \/ op' = "read_input_report" /\ result' = "None") =>
          device' = device /\ openHandles' = openHandles]_vars

\* C15 as claimed: send_hex_command never writes a report longer than the
\* declared total length padding_length: a report it built that is longer is
\* refused (False, nothing written), and every report it writes has exactly
\* that length.
C15_DeclaredLength ==
    op = "send_hex_command" =>
        /\ (Len(command) > args[2] => result = "False" /\ wire = <<>>)
        /\ \A i \in DOMAIN wire : Len(wire[i]) = args[2]

\* The commands of the catalog.
CatalogOps ==
    {"set_fan_speed", "enter_realtime_speed_mode", "set_gear_position",
     "set_gear_light", "set_power_on_start", "set_smart_start_stop",
     "set_brightness"}

\* The report the last catalog call builds on a session holding dev, the
\* write returning (wok) or raising.
CatalogBuilt(dev, wok) ==
    CASE op = "set_fan_speed" -> set_fan_speed(dev, args[1], wok).built
      [] op = "enter_realtime_speed_mode" -> enter_realtime_speed_mode(dev, wok).built
      [] op = "set_gear_position" -> set_gear_position(dev, args[1], args[2], wok).built
      [] op = "set_gear_light" -> set_gear_light(dev, args[1], wok).built
      [] op = "set_power_on_start" -> set_power_on_start(dev, args[1], wok).built
      [] op = "set_smart_start_stop" -> set_smart_start_stop(dev, args[1], wok).built
      [] op = "set_brightness" -> set_brightness(dev, args[1], wok).built

\* C16 as claimed: whatever the session went through, the command a catalog
\* call builds is 25 bytes long and begins 5A A5 (the 25 bytes counted with
\* or without the report id in front of 5A A5), and it is the same for a
\* session holding no device or any device, whether or not the write succeeds.
C16_CatalogFrame25 ==
    (op \in CatalogOps /\ command # <<>>) =>
        /\ \/ Len(command) = 25 /\ SubSeq(command, 1, 2) = <<90, 165>>
           \/ Len(command) = 25 /\ SubSeq(command, 2, 3) = <<90, 165>>
           \/ Len(command) = 26 /\ SubSeq(command, 2, 3) = <<90, 165>>
        /\ \A dev \in {None} \cup (1..MaxHandles), wok \in BOOLEAN :
               CatalogBuilt(dev, wok) = command

\* C17 as claimed: send_hex_command decodes the text left after removing
\* whitespace and one leading "0x": if that is an even number of hex digits
\* the command built is the report id followed by exactly those bytes, in
\* order, then padding; any other text (a non-hex character left, an "x" or
\* "0x" further in, an odd number of digits) is refused: False, nothing built,
\* nothing written.
C17_HexDecode ==
    op = "send_hex_command" =>
        IF MalformedHex(args[1])
        THEN result = "False" /\ wire = <<>> /\ command = <<>>
        ELSE LET payload == FromHex(Stripped(args[1])) IN
             /\ Len(command) >= 1 + Len(payload)
             /\ SubSeq(command, 1, 1 + Len(payload)) = <<2>> \o payload
             /\ \A i \in (2 + Len(payload))..Len(command) : command[i] = 0

\* C18: read_input_report on a session holding a device never raises: it
\* returns the data when device.read returned some and None when it returned
\* nothing within the timeout (or failed), and in every case the session
\* holds the same open device afterwards.
C18_PollTimeout ==
    [][(op' = "read_input_report" /\ device # None) =>
          /\ result' \in {"Data", "None"}
          /\ \A o \in ReadOutcomes :
                read_input_report(device, o).ret = IF o = "data" THEN "Data" ELSE "None"
          /\ device' = device
          /\ openHandles' = openHandles
          /\ device' \in openHandles']_vars

\* C18 witness: a poll on a bound session reached device.read and returned
\* nothing; the session still holds its open device.
C18_Witness ==
    /\ op = "read_input_report" /\ result = "None" /\ nonblocking
    /\ device # None /\ device \in openHandles

\* C22: what a poll returns when device.read (or set_nonblocking) fails, and
\* what it returns on a session that holds no device, differs from what it
\* returns when device.read gave nothing within the timeout.
C22_PollOutcomes ==
    [][op' = "read_input_report" =>
          IF device = None
          THEN \A h \in 1..MaxHandles : result' # read_input_report(h, "empty").ret
          ELSE \A o \in {"mode_raises", "read_raises"} :
                  read_input_report(device, o).ret
                      # read_input_report(device, "empty").ret]_vars

\* The sum of the first n bytes of f.
RECURSIVE SumBytes(_, _)
SumBytes(f, n) == IF n = 0 THEN 0 ELSE f[n] + SumBytes(f, n - 1)

\* The place of the last byte of f that is not zero padding (0: there is none).
LastNonPadding(f) ==
    IF \A i \in DOMAIN f : f[i] = 0 THEN 0
    ELSE CHOOSE i \in DOMAIN f : f[i] # 0 /\ \A j \in DOMAIN f : j > i => f[j] = 0

\* The calls that send a fixed command text.
FixedOps ==
    {"enter_realtime_speed_mode", "set_gear_position", "set_gear_light",
     "set_power_on_start", "set_smart_start_stop", "set_brightness"}

\* C23: the frame a fixed-text catalog call builds (the command after its
\* report id) begins 5A A5 and its last non-padding byte is the sum of all
\* the bytes before it plus 1, modulo 256.
C23_FixedChecksum ==
    (op \in FixedOps /\ command # <<>>) =>
        LET f == Tail(command)
            k == LastNonPadding(f)
        IN  /\ k > 2
            /\ SubSeq(f, 1, 2) = <<90, 165>>
            /\ f[k] = (SumBytes(f, k - 1) + 1) % 256

\* C23 witness: the brightness 0 frame, the one whose check byte (6F) stands
\* far from its head, was built.
C23_Witness ==
    /\ op = "set_brightness" /\ args = <<0>> /\ command # <<>>
    /\ LastNonPadding(Tail(command)) = 16 /\ command[17] = 111

\* The place of the first interface with this pair of ids in the enumeration.
FirstListed(pair) ==
    CHOOSE i \in DOMAIN enumerated :
        /\ <<enumerated[i].vendor_id, enumerated[i].product_id>> = pair
        /\ \A j \in 1..(i - 1) :
              <<enumerated[j].vendor_id, enumerated[j].product_id>> # pair

\* C24: connect() without ids on a session holding no device passes to
\* _try_connect a prefix of the devices found, which follow the order of the
\* enumeration, no pair of ids twice; no attempt but the last one opened,
\* and the last one failed only if every device found was tried; no handle
\* opened by the call stays open but the one the session holds; and True is
\* returned exactly when the session holds an open device afterwards, False
\* leaving it with no device and the open handles as they were.
C24_AutoConnect ==
    [][(op' = "connect" /\ args' = <<>> /\ device = None) =>
          \A devices \in {find_bs2pro_devices(enumerated)}, n \in {Len(attempts')} :
              /\ n <= Len(devices)
              /\ \A i \in 1..n : attempts'[i] = <<devices[i][1], devices[i][2]>>
              /\ \A i, j \in 1..n :
                    i < j => /\ attempts'[i] # attempts'[j]
                             /\ FirstListed(attempts'[i]) < FirstListed(attempts'[j])
              /\ \A i \in 1..(n - 1) : open_outcomes[i] # "ok"
              /\ (result' = "True") = (n > 0 /\ open_outcomes[n] = "ok")
              /\ result' = "False" =>
                    \/ n = Len(devices)
                    \/ n = 0
              /\ openHandles' \ openHandles \subseteq {device'}
              /\ (result' = "True") = (device' # None /\ device' \in openHandles')
              /\ result' = "False" => device' = None /\ openHandles' = openHandles]_vars

\* C24 witness: two interfaces of one device were listed, the attempt on it
\* failed and was not repeated, the next device opened and is held.
C24_Witness ==
    /\ op = "connect" /\ args = <<>> /\ result = "True"
    /\ Len(attempts) = 2 /\ Len(enumerated) = 3
    /\ enumerated[1] = enumerated[2]
    /\ attempts[1] = <<enumerated[1].vendor_id, enumerated[1].product_id>>
    /\ openHandles = {device}

\* A 16-bit unsigned value.
IsU16(n) == n \in 0..65535

\* C26: the ids connect passes to _try_connect (and so to device.open), the
\* ids the session stores, the ids of the known-device table and the vendor
\* ids of the common-vendor list are 16-bit unsigned values.
C26_IdsU16 ==
    /\ \A i \in DOMAIN attempts : IsU16(attempts[i][1]) /\ IsU16(attempts[i][2])
    /\ vendor_id # None => IsU16(vendor_id)
    /\ product_id # None => IsU16(product_id)
    /\ \A i \in DOMAIN known_bs2pro_devices :
          IsU16(known_bs2pro_devices[i][1]) /\ IsU16(known_bs2pro_devices[i][2])
    /\ \A v \in common_gamepad_vendors : IsU16(v)

\* What send_hex_command does with the i-th entry of the command list.
Entry(i) ==
    send_hex_command(device, strip(test_commands[i]), DefaultReportId,
                     DefaultPaddingLength, write_ok[i])

\* C20: send_multiple_commands makes one send_hex_command call for each entry
\* that is not blank, in list order, and none for a blank one: the reports
\* written are, in order, those of the entries whose call came to a write,
\* one each, whether the write failed or not, and whatever happened to the
\* entries before; the count returned is the number of entries whose call
\* returned True.
C20_NoRetry ==
    op = "send_multiple_commands" =>
        LET sent == {i \in DOMAIN test_commands : strip(test_commands[i]) # ""}
            written == {i \in sent : Entry(i).wrote}
        IN  /\ Len(wire) = Cardinality(written)
            /\ \A i \in written :
                  wire[Cardinality({j \in written : j <= i})] = Entry(i).report
            /\ result = Cardinality({i \in sent : Entry(i).ret = "True"})

\* C20 witness: of two commands the first one's write failed and the second
\* was written with success: two reports, count 1.
C20_Witness ==
    /\ op = "send_multiple_commands" /\ device # None
    /\ Len(test_commands) = 2 /\ write_ok = <<FALSE, TRUE>>
    /\ Len(wire) = 2 /\ wire[1] # wire[2] /\ result = 1

(***************************************************************************)
(* BS2PROMonitor: the telemetry decoder                                   *)
(***************************************************************************)
\* struct.unpack("<H", two bytes)[0]: the little-endian reading.
unpack_le(hi, lo) == lo * 256 + hi

\* struct.unpack(">H", two bytes)[0]
unpack_be(hi, lo) == hi * 256 + lo

\* parse_speed_data refusing a frame of exactly 12 bytes (<= for <).
parse_speed_data_le12(bytes) ==
    IF Len(bytes) <= 12 THEN <<None, None>>
    ELSE <<unpack_be(bytes[9], bytes[10]), unpack_be(bytes[11], bytes[12])>>

\* parse_speed_data reading data[6:8] and data[8:10].
parse_speed_data_off6(bytes) ==
    IF Len(bytes) < 12 THEN <<None, None>>
    ELSE <<unpack_be(bytes[7], bytes[8]), unpack_be(bytes[9], bytes[10])>>

\* parse_speed_data(data): (target_speed, actual_speed), or (None, None) for
\* fewer than 12 bytes.  data[8:10] and data[10:12] are the model's bytes 9..12.
parse_speed_data(bytes) ==
    IF Len(bytes) < 12 THEN <<None, None>>
    ELSE <<unpack_be(bytes[9], bytes[10]), unpack_be(bytes[11], bytes[12])>>

\* The sample packet of parse_speed_data's docstring.
SamplePacket == FromHex("5aa5ef0b4a0705e40ce40cfb002b00000000000000000000")

\* Frames handed to the decoder: n bytes, the first eight all `pre`, the four
\* speed bytes drawn from ByteSamples, the bytes after them all `post`.
ByteSamples == {0, 5, 12, 228, 251, 255}
FillSamples == {0, 90}

Frame(n, pre, b, post) ==
    [i \in 1..n |-> IF i <= 8 THEN pre ELSE IF i <= 12 THEN b[i - 8] ELSE post]

FrameInputs ==
    {SamplePacket} \cup
    {Frame(n, pre, b, post) :
        n \in 0..MaxFrameLen, pre \in FillSamples,
        b \in ByteSamples \X ByteSamples \X ByteSamples \X ByteSamples,
        post \in FillSamples}

\* A monitor holding one received frame, not yet decoded.
InitDecode ==
    /\ HidInit /\ CallInit /\ MonInit /\ BatchInit /\ ScanInit
    /\ data \in FrameInputs /\ parsed = <<>> /\ events = <<>>

ParseSpeedData ==
    /\ parsed' = parse_speed_data(data)
    /\ op' = "parse_speed_data"
    /\ args' = <<>>
    /\ result' = "None"
    /\ UNCHANGED <<hidVars, data, events, monVars, batchVars, scanVars>>

NextDecode == ParseSpeedData

SpecDecode == InitDecode /\ [][NextDecode]_vars

(***************************************************************************)
(* Receiving: the BLE notification callback and the HID listen loop        *)
(***************************************************************************)
\* Inbound frames: none, the sample packet, its first 11 and 12 bytes, and a
\* packet of zero bytes only.
StreamFrames ==
    {<<>>, SamplePacket, SubSeq(SamplePacket, 1, 11), SubSeq(SamplePacket, 1, 12),
     Zeros(24)}

\* any(response)
any(bytes) == \E i \in DOMAIN bytes : bytes[i] # 0

\* What notification_handler reports for a frame besides its raw dump: the
\* decoded speeds, or that it cannot be parsed as speed data.  (The
\* characteristic bleak passes carries an integer handle and a uuid.)
notification_handler(bytes) ==
    LET speeds == parse_speed_data(bytes) IN
    IF speeds[1] # None /\ speeds[2] # None
    THEN <<<<"telemetry", speeds[1], speeds[2]>>>>
    ELSE <<<<"decode_error">>>>

NotificationHandler ==
    \E bytes \in StreamFrames :
        /\ data' = bytes
        /\ parsed' = parse_speed_data(bytes)
        /\ events' = notification_handler(bytes)
        /\ op' = "notification_handler"
        /\ args' = <<>>
        /\ result' = "None"
        /\ UNCHANGED <<hidVars, monVars, batchVars, scanVars>>

\* One pass of the listen loop of interactive_command_mode, which runs on a
\* connected controller: read_input_report(1000), then the first 16 bytes of
\* the response are printed if it is not None and has a non-zero byte.
\* `bytes` is what device.read returns when it returns; `returned`: the
\* response is not None, and then it is `response`.
listen(returned, response) ==
    IF returned /\ any(response)
    THEN <<<<"input", IF Len(response) < 16 THEN response ELSE SubSeq(response, 1, 16)>>>>
    ELSE <<>>

Listen ==
    \E outcome \in ReadOutcomes \ {"empty"}, bytes \in StreamFrames :
        LET r == read_input_report(device,
                                   IF outcome = "data" /\ bytes = <<>> THEN "empty"
                                   ELSE outcome)
            returned == r.ret = "Data"
        IN  /\ device # None
            /\ nonblocking' = (nonblocking \/ r.mode)
            /\ data' = IF returned THEN bytes ELSE <<>>
            /\ parsed' = <<>>
            /\ events' = listen(returned, bytes)
            /\ op' = "listen"
            /\ args' = <<1000>>
            /\ result' = r.ret
            /\ wire' = <<>>
            /\ command' = <<>>
            /\ UNCHANGED <<device, vendor_id, product_id, openHandles, nextHandle,
                           closed, attempts, monVars, batchVars, scanVars>>

NextStream == Connect \/ NotificationHandler \/ Listen

SpecStream == Init /\ [][NextStream]_vars

\* An inbound frame has just been received.
Inbound ==
    \/ op = "notification_handler"
    \/ op = "listen" /\ result = "Data"

\* C14 as claimed: every inbound frame, on the BLE and on the HID path,
\* produces exactly one event: the telemetry event with the decoded speeds if
\* the frame decodes, a decode-error event otherwise.
C14_OneEventPerFrame ==
    Inbound =>
        /\ Len(events) = 1
        /\ IF parse_speed_data(data) # <<None, None>>
           THEN events[1] = <<"telemetry">> \o parse_speed_data(data)
           ELSE events[1] = <<"decode_error">>

(***************************************************************************)
(* The BLE monitor run: main, scan_devices, connect_and_monitor and the    *)
(* signal handler's stop_monitoring                                        *)
(***************************************************************************)
\* A step of the monitor changes nothing but the monitor's own variables.
MonitorOnly ==
    UNCHANGED <<hidVars, callVars, data, parsed, events, batchVars, scanVars>>

\* The first characteristic of a set, in the order the services list them.
First(S) == CHOOSE x \in S : \A y \in S : x <= y

\* The one found last (target_char is overwritten by each later match).
Last(S) == CHOOSE x \in S : \A y \in S : x >= y

\* other_chars without the [:2].
AllOthers(S) == S

\* other_chars[:2]
FirstTwo(S) == {x \in S : Cardinality({y \in S : y < x}) < 2}

\* main: await monitor.scan_devices(); without a target device main returns.
ScanDevices ==
    /\ pc = "main"
    /\ \E found \in BOOLEAN : pc' = IF found THEN "connect" ELSE "done"
    /\ UNCHANGED <<running, stop_requested, notification_chars, target_chars,
                   selected_char, subscribed, stop_issued>>
    /\ MonitorOnly

\* connect_and_monitor up to the choice of selected_char: the client
\* connects (an exception ends the run), the characteristics with "notify"
\* are collected in the order found, target_char is the last of them with
\* the target UUID; with none to listen on the run ends.
ConnectClient ==
    /\ pc = "connect"
    /\ \E ok \in BOOLEAN, chars \in SUBSET (1..MaxChars) :
         \E targets \in SUBSET chars :
            IF ~ok
            THEN pc' = "done"
                 /\ UNCHANGED <<notification_chars, target_chars, selected_char>>
            ELSE /\ notification_chars' = chars
                 /\ target_chars' = targets
                 /\ IF chars = {}
                    THEN pc' = "done" /\ UNCHANGED selected_char
                    ELSE /\ pc' = "start_notify"
                         /\ selected_char' = IF targets # {} THEN Last(targets)
                                              ELSE First(chars)
    /\ UNCHANGED <<running, stop_requested, subscribed, stop_issued>>
    /\ MonitorOnly

\* await client.start_notify(selected_char, ...): not inside a try of its
\* own, so an exception ends the run.
StartNotify ==
    /\ pc = "start_notify"
    /\ \E ok \in BOOLEAN :
         IF ok THEN subscribed' = {selected_char} /\ pc' = "other_chars"
         ELSE pc' = "done" /\ UNCHANGED subscribed
    /\ UNCHANGED <<running, stop_requested, notification_chars, target_chars,
                   selected_char, stop_issued>>
    /\ MonitorOnly

\* start_notify on up to two of the other characteristics, each in its own
\* try: those that fail are skipped.
StartNotifyOthers ==
    /\ pc = "other_chars"
    /\ \E started \in SUBSET FirstTwo(notification_chars \ {selected_char}) :
         subscribed' = subscribed \cup started
    /\ pc' = "set_running"
    /\ UNCHANGED <<running, stop_requested, notification_chars, target_chars,
                   selected_char, stop_issued>>
    /\ MonitorOnly

\* self.running = True
SetRunning ==
    /\ pc = "set_running"
    /\ running' = TRUE
    /\ pc' = "loop"
    /\ UNCHANGED <<stop_requested, notification_chars, target_chars,
                   selected_char, subscribed, stop_issued>>
    /\ MonitorOnly

\* while self.running: await asyncio.sleep(1)
MonitorLoop ==
    /\ pc = "loop"
    /\ pc' = IF running THEN "loop" ELSE "stop_notify"
    /\ UNCHANGED <<running, stop_requested, notification_chars, target_chars,
                   selected_char, subscribed, stop_issued>>
    /\ MonitorOnly

\* The stop loop with one try around the whole of it: the first stop_notify
\* that raises ends it.
stop_notify_until_failure(chars, subs, fails) ==
    LET reached == {c \in chars : \A d \in chars \cap fails : c <= d} IN
    [issued |-> reached, subscribed |-> subs \ (reached \ fails)]

\* for char in notification_chars: try: await client.stop_notify(char),
\* except: pass.  `fails`: the characteristics stop_notify raises for; such a
\* one stays subscribed, every other one called is no longer.
stop_notify(chars, subs, fails) ==
    [issued |-> chars, subscribed |-> subs \ (chars \ fails)]

StopNotify ==
    /\ pc = "stop_notify"
    /\ \E fails \in SUBSET notification_chars :
         LET r == stop_notify(notification_chars, subscribed, fails) IN
         /\ stop_issued' = r.issued
         /\ subscribed' = r.subscribed
    /\ pc' = "client_exit"
    /\ UNCHANGED <<running, stop_requested, notification_chars, target_chars,
                   selected_char>>
    /\ MonitorOnly

\* The end of "async with BleakClient(device)": the client disconnects, which
\* ends whatever subscription is left, and connect_and_monitor returns.
ClientExit ==
    /\ pc = "client_exit"
    /\ subscribed' = {}
    /\ pc' = "done"
    /\ UNCHANGED <<running, stop_requested, notification_chars, target_chars,
                   selected_char, stop_issued>>
    /\ MonitorOnly

\* stop_monitoring(), called by the signal handler main installs: at any
\* point of the run, until main has returned.
StopMonitoring ==
    /\ pc # "done"
    /\ running' = FALSE
    /\ stop_requested' = TRUE
    /\ UNCHANGED <<pc, notification_chars, target_chars, selected_char, subscribed, stop_issued>>
    /\ MonitorOnly

\* The steps of the monitor's own coroutine.
MonitorStep ==
    \/ ScanDevices \/ ConnectClient \/ StartNotify \/ StartNotifyOthers
    \/ SetRunning \/ MonitorLoop \/ StopNotify \/ ClientExit

NextMonitor == MonitorStep \/ StopMonitoring

\* The event loop keeps running the coroutine: every await of it completes
\* (the scan and the sleep are timed).  Signals are not owed to the program.
SpecMonitor == Init /\ [][NextMonitor]_vars /\ WF_vars(MonitorStep)

\* C19 as claimed: once stop_monitoring() has been called, at whatever point
\* of the run, the run ends: the monitoring loop is left and
\* connect_and_monitor returns.
C19_StopTerminates == stop_requested ~> (pc = "done")

\* C21: the monitor leaves its loop only into the stop loop, and only after a
\* stop request; the stop loop calls stop_notify on every characteristic
\* start_notify had succeeded on, whichever of the calls fail, and only then
\* is the client left (which releases the link).
C21_Unsubscribe ==
    [][/\ (pc = "loop" /\ pc' # "loop" => pc' = "stop_notify" /\ stop_requested)
       /\ (pc = "stop_notify" /\ pc' # "stop_notify" =>
              /\ pc' = "client_exit"
              /\ subscribed \subseteq stop_issued'
              /\ subscribed' \subseteq subscribed)
       /\ (pc' = "done" /\ pc # "done" /\ subscribed # {} => pc = "client_exit")]_vars

\* C21 witness: the loop was left after a stop request, stop_notify failed
\* for one subscribed characteristic and was still called on three.
C21_Witness ==
    /\ pc = "client_exit" /\ stop_requested
    /\ Cardinality(subscribed) = 1 /\ Cardinality(stop_issued) = 3
    /\ \E c \in stop_issued : \A d \in subscribed : c > d

\* C25: while running is True, between one and three characteristics are
\* subscribed and the selected one is among them, the selected one being a
\* notify characteristic with the target UUID if there is one and the first
\* notify characteristic found otherwise; and running becomes True whichever
\* of the additional subscriptions failed, but never without a notify
\* characteristic.
C25_Streaming ==
    /\ [](running =>
            /\ Cardinality(subscribed) \in 1..3
            /\ selected_char \in subscribed
            /\ subscribed \subseteq notification_chars
            /\ target_chars # {} => selected_char \in target_chars
            /\ target_chars = {} =>
                  \A c \in notification_chars : selected_char <= c)
    /\ [][pc = "other_chars" /\ pc' # pc => pc' = "set_running"]_vars
    /\ [][pc = "set_running" /\ pc' # pc => running' /\ pc' = "loop"]_vars
    /\ [](notification_chars = {} => ~running /\ pc \notin {"set_running", "loop"})

\* C25 witness: streaming on the target characteristic, which is not the
\* first one found, with one additional subscription made and one failed.
C25_Witness ==
    /\ running /\ pc = "loop"
    /\ Cardinality(notification_chars) >= 3
    /\ Cardinality(subscribed) = 2
    /\ selected_char \in target_chars
    /\ \E c \in notification_chars : c < selected_char

(***************************************************************************)
(* Properties of the telemetry decoder (specification SpecDecode)          *)
(***************************************************************************)
\* C7: for a frame of 12 bytes or more the decoder returns the pair whose
\* big-endian bytes are the frame's bytes 8-9 and 10-11 (zero included), and
\* the same pair as for the 12-byte frame that keeps only those four bytes:
\* bytes 0-7 and the bytes from 12 on do not matter.
C7_DecodeBigEndian ==
    (op = "parse_speed_data" /\ Len(data) >= 12) =>
        /\ parsed[1] \in 0..65535 /\ parsed[2] \in 0..65535
        /\ <<parsed[1] \div 256, parsed[1] % 256>> = <<data[9], data[10]>>
        /\ <<parsed[2] \div 256, parsed[2] % 256>> = <<data[11], data[12]>>
        /\ parsed = parse_speed_data(Frame(12, 0, SubSeq(data, 9, 12), 0))

\* C7 witness: a frame longer than 12 bytes with non-zero bytes around the
\* speeds decoded to target 0 and actual 3323.
C7_Witness ==
    /\ op = "parse_speed_data" /\ Len(data) > 12 /\ data[1] # 0 /\ data[13] # 0
    /\ parsed = <<0, 3323>>

\* C8: decoding yields no speed pair exactly for the frames shorter than 12
\* bytes, the empty one included; every frame of 12 bytes or more yields a
\* pair of 16-bit values.
C8_DecodeLength ==
    op = "parse_speed_data" =>
        /\ (Len(data) < 12 <=> parsed = <<None, None>>)
        /\ (Len(data) >= 12 => parsed[1] \in 0..65535 /\ parsed[2] \in 0..65535)

\* C8 witness: an 11-byte frame was refused.
C8_Witness ==
    op = "parse_speed_data" /\ Len(data) = 11 /\ parsed = <<None, None>>

\* The first 12 bytes of the frame of C9: 5A A5 EF 0B 4A 07 05 E4 0C E4 0C FB.
C9_Frame == <<90, 165, 239, 11, 74, 7, 5, 228, 12, 228, 12, 251>>

\* C9 as claimed: that frame decodes to target 1508 and actual 3300.
C9_Sample_1508_3300 ==
    (op = "parse_speed_data" /\ Len(data) >= 12 /\ SubSeq(data, 1, 12) = C9_Frame) =>
        parsed = <<1508, 3300>>

\* C9 as amended: that frame decodes to target 0x0CE4 = 3300 (bytes 8-9) and
\* actual 0x0CFB = 3323 (bytes 10-11).
C9_Sample_3300_3323 ==
    (op = "parse_speed_data" /\ Len(data) >= 12 /\ SubSeq(data, 1, 12) = C9_Frame) =>
        parsed = <<3300, 3323>>

\* C9 witness: the sample packet of the docstring was decoded.
C9_Witness ==
    op = "parse_speed_data" /\ data = SamplePacket /\ parsed # <<>>

====
